---- MODULE Spec2Model ----
(***************************************************************************)
(* A model of the ILS connector (uvalib/ils-connector-ws): the prompt-     *)
(* override retry engine, the fill-hold workflow, the request middleware   *)
(* (session-ensure, reference-data refresh), the DIBS toggle and the hold  *)
(* cancel handler.  Each component has its own specification; the          *)
(* variables of the components a specification does not run stay idle.     *)
(***************************************************************************)
EXTENDS Integers, Sequences, FiniteSets, TLC

VARIABLES
    rt,         \* the running retrySirsiRequest call: its arguments and locals
    posts,      \* every POST the retry engine has sent, in order
    upPrompts,  \* the prompt types the upstream may answer with
    fh,         \* the fillHold request: its locals and the responses written
    session,    \* svc.SirsiSession: the connector's own staff session
    item,       \* the item record the upstream holds for the DIBS barcode
    dibs,       \* the DIBS requests made so far, each with what it did
    dh,         \* the deleteHold requests: their count and the last one made
    clock,      \* time.Now() in hours, and how often it was moved on
    locations,  \* svc.Locations: the location table and its RefreshAt
    libraries,  \* svc.Libraries: the library table and its RefreshAt
    reqs,       \* the requests in the router: where each is in its chain
    ch,         \* the createHold request: its inputs and the response written
    ro,         \* the request options being derived for one availability response
    av,         \* the getAvailability request: the bib, the items emitted, the response
    term        \* the shutdown goroutine: terminateSession and os.Exit

rtVars == <<rt, posts>>
fhVars == <<fh>>

dibsVars == <<item, dibs>>
mwVars == <<clock, locations, libraries, reqs>>

vars == <<rt, posts, upPrompts, fh, session, item, dibs, dh, mwVars, ch, ro, av, term>>

\* what the actions of one component leave alone
notRetry == <<upPrompts, fhVars, session, dibsVars, dh, mwVars, ch, ro, av, term>>
notFill == <<upPrompts, session, dibsVars, dh, mwVars, ch, ro, av, term>>
notDibs == <<rtVars, upPrompts, fhVars, session, dh, mwVars, ch, ro, av, term>>
notHold == <<rtVars, upPrompts, fhVars, session, dibsVars, mwVars, ch, ro, av, term>>
notMw == <<rtVars, upPrompts, fhVars, dibsVars, dh, ch, ro, av, term>>
notPlace == <<rt, posts, upPrompts, fh, session, item, dibs, dh, mwVars, ro, av, term>>
notOptions == <<rt, posts, upPrompts, fh, session, item, dibs, dh, mwVars, ch, av, term>>
notAvail == <<rt, posts, upPrompts, fh, session, item, dibs, dh, mwVars, ch, term>>
notTerm == <<rt, posts, upPrompts, fh, item, dibs, dh, mwVars, ch, ro, av>>

(***************************************************************************)
(* The state of each component before it is asked anything.                *)
(***************************************************************************)
\* item.Fields.Transit == nil
NoTransit == [present |-> FALSE, hasHoldRecord |-> FALSE, key |-> ""]

\* barcodeScanResp as fillHold creates it
NoOut == [UserID |-> "", PickupLibraryID |-> "", ErrorMessages |-> <<>>]

\* the locals of fillHold before a request
FillStart ==
    [pc |-> "idle", sessionToken |-> "", transit |-> NoTransit,
     fetched |-> <<>>, items |-> <<>>, idx |-> 0, errors |-> <<>>,
     success |-> FALSE, stop |-> FALSE, filled |-> 0, out |-> NoOut,
     resps |-> <<>>, panicked |-> FALSE, untransited |-> ""]

\* no DIBS request made, no item looked at
NoItem == [HomeLocation |-> "", ItemType |-> "", CustomInformation |-> <<>>]

DibsStart == [hist |-> <<>>]

\* no hold cancel asked yet
NoHold == [owner |-> <<>>, status |-> "", recallStatus |-> ""]

HoldStart ==
    [count |-> 0, claimsOk |-> FALSE, userID |-> <<>>, fetch |-> "",
     hold |-> NoHold, deleteIssued |-> FALSE, status |-> 0]

\* the two requests the router serves at a time
Requests == {"r1", "r2"}

\* the zero value of time.Time, before every instant of the clock
ZeroTime == 0

\* the location and library tables of a serviceContext just built
NoLocations == [Records |-> <<>>, ReserveLocations |-> <<>>,
                RefreshAt |-> ZeroTime]
NoLibraries == [Records |-> <<>>, RefreshAt |-> ZeroTime]

\* what a request has read of, or fetched for, the two tables
NoTables == [locs |-> <<>>, libs |-> <<>>]

\* a request the router has not received yet
ReqStart ==
    [route |-> "", pc |-> "new", idx |-> 0, status |-> 0, aborted |-> FALSE,
     ran |-> <<>>, overlapped |-> FALSE, loginFailed |-> FALSE,
     locFailed |-> FALSE,
     libFailed |-> FALSE, before |-> NoTables, got |-> NoTables,
     after |-> NoTables, observed |-> NoTables, atRefreshAt |-> FALSE]

ClockStart == [now |-> 1, ticks |-> 0]

\* no place-hold request made yet
NoHoldErrors == [present |-> FALSE, Sirsi |-> <<>>, ItemBarcode |-> <<>>]

NoHoldResponse ==
    [ItemBarcode |-> "", PickupLibrary |-> "", UserID |-> "",
     Errors |-> NoHoldErrors]

\* a body the upstream sends: free text
PlainBody == [mentionsMessageList |-> FALSE, parses |-> FALSE,
              messageList |-> <<>>]

\* no answer of the upstream yet
NoRaw == [rawErr |-> "", StatusCode |-> 0, body |-> PlainBody]

PlaceStart ==
    [count |-> 0, bound |-> FALSE, claimsOk |-> FALSE, posted |-> FALSE,
     upstream |-> NoRaw, outcome |-> "", status |-> 0, kind |-> "",
     out |-> NoHoldResponse]

IdlePlace == ch = PlaceStart

\* no request options asked for yet
OptionsStart ==
    [pc |-> "idle", profile |-> "", homeLibrary |-> "", noScans |-> FALSE,
     given |-> <<>>, free |-> TRUE, atoItem |-> 0, seen |-> <<>>,
     Items |-> <<>>,
     Options |-> [o \in {} |-> <<>>], pda |-> ""]

IdleOptions == ro = OptionsStart

\* no availability request made yet
AvailStart ==
    [pc |-> "idle", matched |-> FALSE, fetch |-> "", table |-> {},
     calls |-> 0, seen |-> <<>>, out |-> <<>>, status |-> 0, kind |-> ""]

IdleAvail == av = AvailStart

\* the signal handler has not been woken
TermStart == [pc |-> "running", valid |-> FALSE, logout |-> "none"]

IdleTerm == term = TermStart

IdleFill == fh = FillStart
IdleMw ==
    /\ clock = ClockStart
    /\ locations = NoLocations
    /\ libraries = NoLibraries
    /\ reqs = [r \in Requests |-> ReqStart]
IdleHold == dh = HoldStart
IdleDibs == item = NoItem /\ dibs = DibsStart

(***************************************************************************)
(* Bounds of the model.                                                    *)
(***************************************************************************)
MaxCalls == 2       \* retry-engine calls one behaviour of SpecRetry makes

(***************************************************************************)
(* Prompt-override retry engine: src/cmd/dibs.go, retrySirsiRequest.       *)
(***************************************************************************)
MaxAttempts == 5    \* the literal of the loop guard "for attempt < 5"

NoPrompt == ""

\* prompt codes the upstream answers a refused circulation call with
PromptTypes == {"CKOBLOCKS", "CIRC_HOLDS_OVRCD"}

\* the base override lists the callers pass (dibs.go:999, part_010:458, 491)
BaseOverrides ==
    { <<>>, <<"CKOBLOCKS">>, <<"CKOBLOCKS", "/OK">>,
      <<"CIRC_NONCHARGEABLE_OVRCD/DIBSDIBS">> }

\* the override postfixes the callers pass (dibs.go:1004, part_010:465)
Postfixes == {"", "DIBSDIBS"}

\* the error bodies sendRequest hands back: a structured sirsi error (its
\* dataMap.promptType possibly empty) or a body that is not JSON at all
ErrorBodies(prompts) ==
    { [kind |-> "json", promptType |-> p] : p \in prompts \cup {NoPrompt} }
        \cup { [kind |-> "text", promptType |-> "n/a"] }

\* the success bodies of the circulation endpoints: an untransit answer with
\* its currentStatus, or a body the caller cannot parse
OkBodies ==
    { [kind |-> "json", currentStatus |-> s] : s \in {"ON_SHELF", "INTRANSIT"} }
        \cup { [kind |-> "text", currentStatus |-> "n/a"] }

\* what sendRequest returns for one POST: (body, nil) or (nil, requestError)
Responses(prompts) ==
    { [ok |-> TRUE, status |-> 200, body |-> b] : b \in OkBodies }
        \cup { [ok |-> FALSE, status |-> 400, body |-> b] : b \in ErrorBodies(prompts) }

NoResponse == [ok |-> FALSE, status |-> 0, body |-> [kind |-> "none"]]

\* json.Unmarshal(sirsiErr.Message, &errInfo); errInfo.DataMap.PromptType:
\* the zero value when the body is not the structured error
ParsePromptType(body) ==
    IF body.kind = "json" THEN body.promptType ELSE NoPrompt

\* the header value without the postfix
NewHeaderBare(promptType, overridePostfix) == <<promptType>>

\* the header value built from a prompt type and the postfix
NewHeader(promptType, overridePostfix) ==
    IF overridePostfix # ""
        THEN <<promptType, "/", overridePostfix>>
        ELSE <<promptType>>

\* a base override as a header value
Plain(o) == <<o>>

RECURSIVE CopyOverrides(_)
CopyOverrides(overrides) ==
    IF overrides = <<>> THEN <<>>
    ELSE <<Plain(Head(overrides))>> \o CopyOverrides(Tail(overrides))

\* the loop guard
RetryContinueOffByOne(attempt) == attempt <= MaxAttempts
RetryContinue(attempt) == attempt < MaxAttempts

\* the session token header of a POST: setSirsiHeaders puts the connector's
\* token (when it has one), then every header the caller passed overwrites
SessionHeader == "x-sirs-sessionToken"

PostTokenConnector(svcToken, headers) == svcToken
PostToken(svcToken, headers) ==
    IF SessionHeader \in DOMAIN headers THEN headers[SessionHeader]
    ELSE svcToken

NoHeaders == [h \in {} |-> ""]

RetryIdle ==
    [pc |-> "idle", uri |-> "", headers |-> NoHeaders, payload |-> "",
     overridePostfix |-> "", attempt |-> 0, success |-> FALSE,
     headerOverrides |-> <<>>, last |-> NoResponse, caller |-> "", calls |-> 0,
     overrides |-> <<>>, answers |-> <<>>]

\* the entry of retrySirsiRequest up to the loop: the locals are initialised
\* and the base overrides copied
RetryEnter(uri, payload, headers, overrides, overridePostfix, caller) ==
    [rt EXCEPT !.pc = IF RetryContinue(0) THEN "loop" ELSE "done",
               !.uri = uri, !.headers = headers, !.payload = payload,
               !.overridePostfix = overridePostfix,
               !.attempt = 0, !.success = FALSE,
               !.headerOverrides = CopyOverrides(overrides),
               !.last = NoResponse, !.caller = caller,
               !.calls = rt.calls + 1,
               !.overrides = overrides, !.answers = <<>>]

\* the loop left on success only
RetryBreaksOnSuccess(resp) == resp.ok

\* whether the iteration that received resp leaves the loop with "break"
RetryBreaks(resp) ==
    resp.ok \/ ParsePromptType(resp.body) = NoPrompt

\* the overrides after the iteration that received resp
RetryOverridesAfter(headerOverrides, resp, overridePostfix) ==
    IF ~resp.ok /\ ParsePromptType(resp.body) # NoPrompt
        THEN Append(headerOverrides,
                    NewHeader(ParsePromptType(resp.body), overridePostfix))
        ELSE headerOverrides

\* one iteration of the loop: the POST with the current overrides, the
\* upstream's answer, and the decision to go on or to return
retrySirsiRequest ==
    /\ rt.pc = "loop"
    /\ \E resp \in Responses(upPrompts) :
        LET attempt == rt.attempt + 1
            post == [uri |-> rt.uri, payload |-> rt.payload,
                     token |-> PostToken(session.SessionToken, rt.headers),
                     prompts |-> rt.headerOverrides,
                     attempt |-> attempt, caller |-> rt.caller]
        IN  /\ posts' = Append(posts, post)
            /\ rt' = [rt EXCEPT
                        !.attempt = attempt,
                        !.last = resp,
                        !.answers = Append(@, resp),
                        !.success = resp.ok,
                        !.headerOverrides =
                            RetryOverridesAfter(rt.headerOverrides, resp,
                                                rt.overridePostfix),
                        !.pc = IF RetryBreaks(resp) \/ ~RetryContinue(attempt)
                                   THEN "done" ELSE "loop"]
    /\ UNCHANGED notRetry

\* the value retrySirsiRequest returns: (lastResp, nil) or (lastResp, lastErr)
RetryResult == [ok |-> rt.success, resp |-> rt.last]

(***************************************************************************)
(* SpecRetry: the engine called with every base override list and postfix. *)
(***************************************************************************)
\* the headers checkoutDiBS passes: no session token of its own
DibsHeaders ==
    ("x-sirs-clientID" :> "DIBS-PATRN") @@ ("sd-working-libraryid" :> "UVA-LIB")

\* the connector's session once logged in
LoggedIn ==
    [SessionToken |-> "connector-session", StaffKey |-> "connector-key",
     RefreshAt |-> 1]

RetryCall ==
    /\ rt.pc = "idle"
    /\ rt.calls < MaxCalls
    /\ \E o \in BaseOverrides, pf \in Postfixes :
        rt' = RetryEnter("/circulation/circRecord/checkOut", "payload",
                         DibsHeaders, o, pf, "direct")
    /\ posts' = <<>>
    /\ UNCHANGED notRetry

RetryReturn ==
    /\ rt.pc = "done"
    /\ rt.caller = "direct"
    /\ rt' = [rt EXCEPT !.pc = "idle"]
    /\ UNCHANGED <<posts, notRetry>>

InitRetry ==
    /\ rt = RetryIdle
    /\ posts = <<>>
    /\ upPrompts = PromptTypes
    /\ session = LoggedIn
    /\ IdleFill
    /\ IdleDibs
    /\ IdleHold
    /\ IdleMw
    /\ IdlePlace
    /\ IdleOptions
    /\ IdleAvail
    /\ IdleTerm

NextRetry == RetryCall \/ retrySirsiRequest \/ RetryReturn

SpecRetry == InitRetry /\ [][NextRetry]_vars

\* C1: every call of the retry engine sends at most 5 POSTs, whatever the
\* upstream answers and whatever base overrides and postfix it was given, and
\* it has returned once the fifth has been answered.
AttemptsBounded ==
    /\ Len(posts) <= MaxAttempts
    /\ rt.attempt = Len(posts)
    /\ (rt.attempt >= MaxAttempts => rt.pc # "loop")

\* a call that used all five attempts: four prompts were answered and the
\* fifth POST went out with the postfix applied
FiveAttemptsMade ==
    /\ rt.pc = "done"
    /\ rt.attempt = MaxAttempts
    /\ ~rt.success
    /\ rt.overridePostfix # ""
    /\ Len(posts) = MaxAttempts

\* what the upstream answered attempt j with: the promptType of its error
PromptOf(j) == rt.answers[j].body.promptType

\* a prompt type with "/" and the postfix, when there is a postfix
Suffixed(promptType) ==
    IF rt.overridePostfix = "" THEN <<promptType>>
    ELSE <<promptType, "/", rt.overridePostfix>>

\* C22: attempt k >= 2 of the retry engine sends as SD-Prompt-Return values
\* the base overrides and then, in order, the promptType answered to each of
\* the attempts 1..k-1, each with "/" and the postfix when the postfix is
\* not empty.
PromptHeadersAccumulate ==
    \A k \in 2..Len(posts) :
        /\ Len(posts[k].prompts) = Len(rt.overrides) + k - 1
        /\ \A i \in 1..Len(rt.overrides) :
                posts[k].prompts[i] = <<rt.overrides[i]>>
        /\ \A j \in 1..(k - 1) :
                posts[k].prompts[Len(rt.overrides) + j] = Suffixed(PromptOf(j))

\* a third attempt made with base overrides, a postfix and two different
\* prompts answered before it
ThirdAttemptCarriesPrompts ==
    /\ Len(posts) >= 3
    /\ rt.overrides # <<>>
    /\ rt.overridePostfix # ""
    /\ PromptOf(1) # PromptOf(2)

\* an answer that is a failure without a prompt type
Unrecoverable(resp) ==
    ~resp.ok /\ (resp.body.kind # "json" \/ resp.body.promptType = "")

\* C23: when an attempt of the retry engine fails without a non-empty
\* dataMap.promptType, a body that is not the structured error included,
\* that attempt is the last one and the engine returns its response and
\* error.
NoPromptEndsRetry ==
    \A k \in 1..Len(rt.answers) :
        Unrecoverable(rt.answers[k]) =>
            /\ k = Len(rt.answers)
            /\ Len(posts) = k
            /\ rt.pc # "loop"
            /\ RetryResult = [ok |-> FALSE, resp |-> rt.answers[k]]

\* a call that ended on its second attempt with a body that is no JSON
SecondAttemptUnparsable ==
    /\ rt.pc = "done"
    /\ Len(posts) = 2
    /\ ~rt.last.ok
    /\ rt.last.body.kind = "text"

(***************************************************************************)
(* Fill-hold workflow: src/unnamed/part_010, fillHold.                      *)
(***************************************************************************)
MaxHolds == 2       \* the longest fillableHoldList the upstream returns

HoldKeys == {"H1", "H2", "H3"}

StaffToken == "staff-session"

\* the hold records of the upstream, one per hold key, each with the patron
\* that placed it
HoldRec(k) ==
    [Key |-> k,
     AlternateID |-> CASE k = "H1" -> "mst3k" [] k = "H2" -> "abc2d"
                       [] OTHER -> "xyz9z",
     Barcode |-> CASE k = "H1" -> "P-1" [] k = "H2" -> "P-2" [] OTHER -> "P-3",
     PickupLibrary |-> CASE k = "H1" -> "CLEMONS" [] OTHER -> "SCI-ENG"]

SeqsUpTo(S, n) == UNION { [1..m -> S] : m \in 0..n }

IsInjective(q) == \A i, j \in 1..Len(q) : i # j => q[i] # q[j]

\* fillableHoldList: a list of distinct hold records
FillableLists ==
    { [i \in 1..Len(q) |-> HoldRec(q[i])] :
        q \in { r \in SeqsUpTo(HoldKeys, MaxHolds) : IsInjective(r) } }

\* item.Fields.Transit: nil, a transit without a holdRecord, or a transit
\* that names a hold record by its key
Transits ==
    { NoTransit, [present |-> TRUE, hasHoldRecord |-> FALSE, key |-> ""] }
        \cup { [present |-> TRUE, hasHoldRecord |-> TRUE, key |-> k] :
                 k \in HoldKeys }

\* what the GET of the item returns: the item, a body that does not parse,
\* or an error whose body is a message list or plain text
ItemFetches ==
    { [kind |-> "item", transit |-> t, fillable |-> f] :
        t \in Transits, f \in FillableLists }
        \cup { [kind |-> k, transit |-> NoTransit, fillable |-> <<>>] :
                 k \in {"unparsable", "error-json", "error-text"} }

\* the index of the first fillable hold with the key, 0 when there is none
\* (delIdx, -1 in the code)
FindHold(fillable, holdKey) ==
    IF \E i \in 1..Len(fillable) : fillable[i].Key = holdKey
        THEN CHOOSE i \in 1..Len(fillable) :
                /\ fillable[i].Key = holdKey
                /\ \A j \in 1..(i - 1) : fillable[j].Key # holdKey
        ELSE 0

\* slices.Delete(s, i, i+1)
DeleteAtKeepsAll(q, i) == q
DeleteAt(q, i) == [j \in 1..(Len(q) - 1) |-> IF j < i THEN q[j] ELSE q[j + 1]]

\* the fillHoldInfo of a hold
FillHoldInfo(key, hold, untransit) ==
    [Key |-> key, UserID |-> hold.AlternateID, UserBarcode |-> hold.Barcode,
     PickupLibraryID |-> hold.PickupLibrary, Untransit |-> untransit]

\* the candidate list: the hold of the transit first, then the fillable holds
\* left after it was deleted from the list
BuildItems(transit, fillable) ==
    LET delIdx == FindHold(fillable, transit.key)
        rest == IF transit.present THEN DeleteAt(fillable, delIdx) ELSE fillable
        tail == [i \in 1..Len(rest) |-> FillHoldInfo(rest[i].Key, rest[i], FALSE)]
    IN  IF transit.present
            THEN <<FillHoldInfo(transit.key, fillable[delIdx], TRUE)>> \o tail
            ELSE tail

\* a response written with c.String or c.JSON
TextResp(status) == [status |-> status, kind |-> "text", out |-> NoOut]
JsonResp(status, out) == [status |-> status, kind |-> "json", out |-> out]

\* the handler from its entry to the head of the candidate loop
FillHoldEntry(tok, fetch) ==
    LET ended(resp) == [FillStart EXCEPT !.pc = "done", !.sessionToken = tok,
                                         !.transit = fetch.transit,
                                         !.fetched = fetch.fillable,
                                         !.resps = <<resp>>]
        t == fetch.transit
    IN  IF tok = "" THEN ended(TextResp(401))
        ELSE IF fetch.kind = "error-text" THEN ended(TextResp(500))
        ELSE IF fetch.kind = "error-json"
            THEN ended(JsonResp(400, [NoOut EXCEPT
                                        !.ErrorMessages = <<"item error">>]))
        ELSE IF fetch.kind = "unparsable" THEN ended(TextResp(500))
        ELSE IF Len(fetch.fillable) = 0
                    /\ (~t.present \/ (t.present /\ ~t.hasHoldRecord))
            THEN ended(JsonResp(200, [NoOut EXCEPT
                                        !.ErrorMessages = <<"No hold for this item.">>]))
        ELSE IF t.present /\ ~t.hasHoldRecord
            \* item.Fields.Transit.Fields.HoldRecord.Key with a nil HoldRecord:
            \* the handler panics and gin's recovery answers 500
            THEN [ended(TextResp(500)) EXCEPT !.panicked = TRUE]
        ELSE IF t.present /\ FindHold(fetch.fillable, t.key) = 0
            THEN ended(TextResp(500))
        ELSE [FillStart EXCEPT !.pc = "next", !.sessionToken = tok,
                               !.transit = t, !.fetched = fetch.fillable,
                               !.items = BuildItems(t, fetch.fillable),
                               !.idx = 1]

fillHold ==
    /\ fh.pc = "idle"
    /\ \E tok \in {"", StaffToken}, fetch \in ItemFetches :
        fh' = FillHoldEntry(tok, fetch)
    /\ UNCHANGED <<rtVars, notFill>>

UntransitURI == "/circulation/transit/untransit"
CheckoutURI == "/circulation/circRecord/checkOut"

\* the headers fillHoldUntransitItem and fillHoldCheckout pass
FillHeaders(tgt, sessionToken) ==
    ("x-sirs-clientID" :> "ILL_CKOUT")
        @@ ("sd-working-libraryid" :> tgt.PickupLibraryID)
        @@ (SessionHeader :> sessionToken)

\* the call of the retry engine fillHoldUntransitItem makes
UntransitCall(tgt, sessionToken, idx) ==
    RetryEnter(UntransitURI, [itemBarcode |-> "X001", patronBarcode |-> ""],
               FillHeaders(tgt, sessionToken), <<"CKOBLOCKS", "/OK">>, "",
               <<"untransit", idx>>)

\* the call of the retry engine fillHoldCheckout makes
CheckoutCall(tgt, sessionToken, idx) ==
    RetryEnter(CheckoutURI,
               [itemBarcode |-> "X001", patronBarcode |-> tgt.UserBarcode],
               FillHeaders(tgt, sessionToken), <<"CKOBLOCKS">>, "",
               <<"checkout", idx>>)

\* whether a successful checkout leaves the candidate loop
FillKeepsGoing(coOk) == FALSE
FillBreaks(coOk) == coOk

\* the head of the candidate loop: the next candidate is started, or the loop
\* is over and the response written
fillHoldNext ==
    /\ fh.pc = "next"
    /\ IF fh.stop \/ fh.idx > Len(fh.items)
        THEN LET out == IF fh.success = FALSE
                            THEN [fh.out EXCEPT !.ErrorMessages = fh.errors]
                            ELSE fh.out
             IN  /\ fh' = [fh EXCEPT !.pc = "done", !.out = out,
                                     !.resps = Append(fh.resps, JsonResp(200, out))]
                 /\ UNCHANGED rt
        ELSE LET tgt == fh.items[fh.idx]
                 out == [fh.out EXCEPT !.UserID = tgt.UserID,
                                       !.PickupLibraryID = tgt.PickupLibraryID]
             IN  IF tgt.Untransit
                    THEN /\ fh' = [fh EXCEPT !.pc = "untransit", !.out = out]
                         /\ rt' = UntransitCall(tgt, fh.sessionToken, fh.idx)
                    ELSE /\ fh' = [fh EXCEPT !.pc = "checkout", !.out = out]
                         /\ rt' = CheckoutCall(tgt, fh.sessionToken, fh.idx)
    /\ UNCHANGED <<posts, notFill>>

\* what fillHoldUntransitItem returns from the engine's result: an error, or
\* the currentStatus of the parsed answer
UntransitResult ==
    IF ~rt.success
        THEN [err |-> TRUE, code |-> rt.last.status, status |-> ""]
    ELSE IF rt.last.body.kind # "json"
        THEN [err |-> TRUE, code |-> 500, status |-> ""]
    ELSE [err |-> FALSE, code |-> 0, status |-> rt.last.body.currentStatus]

\* every status of an untransit taken for good
UntransitAcceptedAlways(status) == TRUE

\* the status test on the answer of an untransit
UntransitAccepted(status) == status = "ON_SHELF"

\* the retry engine has returned to fillHoldUntransitItem
fillHoldUntransitItem ==
    /\ fh.pc = "untransit"
    /\ rt.pc = "done"
    /\ LET res == UntransitResult
           tgt == fh.items[fh.idx]
       IN  IF res.err
            THEN /\ fh' = [fh EXCEPT !.errors = Append(fh.errors, <<res.code, "untransit failed">>),
                                     !.untransited = "error",
                                     !.idx = fh.idx + 1, !.pc = "next"]
                 /\ rt' = [rt EXCEPT !.pc = "idle"]
           ELSE IF ~UntransitAccepted(res.status)
            THEN /\ fh' = [fh EXCEPT !.errors = Append(fh.errors, <<0, res.status>>),
                                     !.untransited = res.status,
                                     !.resps = Append(fh.resps, JsonResp(200, fh.out)),
                                     !.idx = fh.idx + 1, !.pc = "next"]
                 /\ rt' = [rt EXCEPT !.pc = "idle"]
           ELSE /\ fh' = [fh EXCEPT !.pc = "checkout",
                                     !.untransited = res.status]
                /\ rt' = CheckoutCall(tgt, fh.sessionToken, fh.idx)
    /\ UNCHANGED <<posts, notFill>>

\* msgs.MessageList of a failed checkout: empty when the body does not parse
MessageList(body) ==
    IF body.kind = "json" THEN << <<0, "checkout refused">> >> ELSE <<>>

\* the retry engine has returned to fillHoldCheckout
fillHoldCheckout ==
    /\ fh.pc = "checkout"
    /\ rt.pc = "done"
    /\ IF ~rt.success
        THEN fh' = [fh EXCEPT !.errors = fh.errors \o MessageList(rt.last.body),
                              !.idx = fh.idx + 1, !.pc = "next"]
        ELSE fh' = [fh EXCEPT !.success = TRUE,
                              !.filled = IF fh.filled = 0 THEN fh.idx ELSE fh.filled,
                              !.stop = FillBreaks(TRUE),
                              !.idx = IF FillBreaks(TRUE) THEN fh.idx ELSE fh.idx + 1,
                              !.pc = "next"]
    /\ rt' = [rt EXCEPT !.pc = "idle"]
    /\ UNCHANGED <<posts, notFill>>

InitFill ==
    /\ rt = RetryIdle
    /\ posts = <<>>
    /\ upPrompts = {"CKOBLOCKS"}
    /\ session = LoggedIn
    /\ fh = FillStart
    /\ IdleDibs
    /\ IdleHold
    /\ IdleMw
    /\ IdlePlace
    /\ IdleOptions
    /\ IdleAvail
    /\ IdleTerm

NextFill ==
    \/ fillHold
    \/ fillHoldNext
    \/ retrySirsiRequest
    \/ fillHoldUntransitItem
    \/ fillHoldCheckout

SpecFill == InitFill /\ [][NextFill]_vars

\* the candidate index a POST was sent for
PostIdx(p) == p.caller[2]

\* C2: with a transit record, the first candidate is the fillable hold with
\* the key of the transit's hold record, marked untransit, it is the first
\* one a call is made for, and no hold key occurs twice among the candidates.
TransitHoldFirst ==
    (fh.transit.present /\ Len(fh.items) > 0) =>
        /\ fh.items[1].Key = fh.transit.key
        /\ fh.items[1].Untransit
        /\ fh.items[1].UserID = HoldRec(fh.transit.key).AlternateID
        /\ \A i \in 2..Len(fh.items) : ~fh.items[i].Untransit
        /\ IsInjective([i \in 1..Len(fh.items) |-> fh.items[i].Key])
        /\ Len(fh.items) = Len(fh.fetched)
        /\ posts # <<>> =>
            /\ posts[1].uri = UntransitURI
            /\ PostIdx(posts[1]) = 1
        /\ \A i, j \in 1..Len(posts) :
            i < j => PostIdx(posts[i]) <= PostIdx(posts[j])

\* the transit's hold was second in the fillable list and has been tried:
\* the untransit failed and the workflow went on to the other hold
TransitHoldTriedFirst ==
    /\ fh.transit.present
    /\ Len(fh.fetched) = 2
    /\ fh.fetched[2].Key = fh.transit.key
    /\ fh.idx = 2
    /\ fh.pc = "checkout"
    /\ Len(posts) >= 2

\* C3: once a checkout has succeeded no further call is made, for that
\* candidate or a later one; and when the transit's hold is filled at once
\* (untransit ON_SHELF, checkout accepted) the one response carries that
\* patron's alternateID and no error messages.
StopsAfterCheckout ==
    /\ fh.filled > 0 =>
        /\ rt.pc # "loop"
        /\ fh.pc \in {"next", "done"}
        /\ posts # <<>>
        /\ posts[Len(posts)].caller = <<"checkout", fh.filled>>
        /\ \A i \in 1..Len(posts) : PostIdx(posts[i]) <= fh.filled
        /\ fh.pc = "done" =>
            /\ fh.resps[Len(fh.resps)].status = 200
            /\ fh.resps[Len(fh.resps)].out.UserID = fh.items[fh.filled].UserID
            /\ fh.resps[Len(fh.resps)].out.ErrorMessages = <<>>
    /\ (fh.pc = "done" /\ fh.filled = 1 /\ fh.transit.present) =>
        /\ Len(fh.resps) = 1
        /\ fh.resps[1].out.UserID = HoldRec(fh.transit.key).AlternateID
        /\ \A i \in 1..Len(posts) :
            posts[i].payload.patronBarcode
                \in {"", HoldRec(fh.transit.key).Barcode}

\* transit hold H1, fillable holds [H1, H2], H1 untransited and checked out
FilledTransitHold ==
    /\ fh.pc = "done"
    /\ fh.filled = 1
    /\ fh.transit.key = "H1"
    /\ Len(fh.fetched) = 2
    /\ fh.fetched[1].Key = "H1"
    /\ fh.fetched[2].Key = "H2"
    /\ fh.resps = <<JsonResp(200, [UserID |-> "mst3k",
                                   PickupLibraryID |-> "CLEMONS",
                                   ErrorMessages |-> <<>>])>>

\* the checkouts posted for a candidate
CheckoutsFor(idx) ==
    {i \in 1..Len(posts) : posts[i].uri = CheckoutURI /\ PostIdx(posts[i]) = idx}

\* C24: for a candidate marked untransit a checkout is posted only after
\* the untransit call succeeded with currentStatus ON_SHELF; after any other
\* outcome of the untransit an error is recorded, no checkout is posted for
\* the candidate and the workflow is at the next candidate.
UntransitGatesCheckout ==
    \A idx \in 1..Len(fh.items) :
        fh.items[idx].Untransit =>
            /\ CheckoutsFor(idx) # {} => fh.untransited = "ON_SHELF"
            /\ fh.untransited \notin {"", "ON_SHELF"} =>
                /\ CheckoutsFor(idx) = {}
                /\ Len(fh.errors) >= 1
                /\ fh.errors[1][2] \in {"untransit failed", fh.untransited}
                /\ fh.idx > idx

\* the untransit of the transit's hold answered INTRANSIT and the checkout
\* of the next candidate was posted
UntransitRefusedNextTried ==
    /\ fh.untransited = "INTRANSIT"
    /\ fh.idx = 2
    /\ CheckoutsFor(2) # {}
    /\ CheckoutsFor(1) = {}

\* C27: fillHold writes exactly one response per request on every path,
\* whatever the item fetch, the untransit and the checkouts answer.
OneResponsePerRequest ==
    fh.pc = "done" => Len(fh.resps) = 1

\* C29: fillHold does not read the hold-record key of a transit without a
\* hold record: an item with such a transit and a non-empty fillable-hold
\* list is answered without a fault.
TransitWithoutHoldRecordServed ==
    (/\ fh.pc = "done"
     /\ fh.transit.present
     /\ ~fh.transit.hasHoldRecord
     /\ Len(fh.fetched) > 0) => ~fh.panicked

\* C12: every POST the fill-hold workflow makes, on every attempt of an
\* untransit or a checkout, carries the session token of the request, which
\* is not empty and is not the connector's own token.
StaffTokenOnEveryCall ==
    \A i \in 1..Len(posts) :
        /\ posts[i].uri \in {UntransitURI, CheckoutURI}
        /\ posts[i].token = fh.sessionToken
        /\ posts[i].token # ""
        /\ posts[i].token # session.SessionToken

\* an untransit and a retried checkout were both sent while the connector
\* held a session of its own
StaffTokenOnRetries ==
    /\ session.SessionToken # ""
    /\ \E i, j \in 1..Len(posts) :
        /\ posts[i].uri = UntransitURI
        /\ posts[j].uri = CheckoutURI
        /\ posts[j].attempt >= 2
        /\ posts[j].token = StaffToken

(***************************************************************************)
(* DIBS state operations: src/cmd/dibs.go, setBarcodeInDiBS,               *)
(* setBarcodeNotInDiBS, getCustomDiBSData.                                 *)
(***************************************************************************)
MaxCustom == 2      \* the longest customInformation list of the item at first
MaxOps == 2         \* DIBS requests one behaviour makes

dibsLocationKey == "DIBS"
dibsCustomInfoKey == "DIBS-INFO"

HomeLocations == {"STACKS", dibsLocationKey}
ItemTypes == {"BOOK", dibsLocationKey}

\* json.Marshal of a dibsData: the document as the tokens of its text
Marshal(dd) == <<"{", dd.HomeLocation, dd.ItemType, "}">>

ZeroDibsData == [HomeLocation |-> "", ItemType |-> ""]

\* json.Unmarshal into a dibsData: the document's keys, the zero value for an
\* empty document, an error for anything else
Unmarshal(data) ==
    IF Len(data) = 4 /\ data[1] = "{" /\ data[4] = "}"
        THEN [ok |-> TRUE,
              dd |-> [HomeLocation |-> data[2], ItemType |-> data[3]]]
    ELSE IF data = <<"{", "}">> THEN [ok |-> TRUE, dd |-> ZeroDibsData]
    ELSE [ok |-> FALSE, dd |-> ZeroDibsData]

EmptyData == <<>>
Garbage == <<"not json">>

\* the custom-information entries an item may carry before any request: an
\* unrelated one, and DIBS-INFO entries with an earlier document, an empty
\* document, no data, or data that does not parse
CustomEntries ==
    { [Key |-> "BINDING", Data |-> <<"note">>] }
        \cup { [Key |-> dibsCustomInfoKey, Data |-> x] :
                 x \in { Marshal([HomeLocation |-> "IVY", ItemType |-> "VIDEO"]),
                         EmptyData, Garbage } }

Items ==
    { [HomeLocation |-> h, ItemType |-> t, CustomInformation |-> ci] :
        h \in HomeLocations, t \in ItemTypes,
        ci \in SeqsUpTo(CustomEntries, MaxCustom) }

NilData == [nil |-> TRUE, dd |-> ZeroDibsData]

HasDibsInfo(it) ==
    \E i \in 1..Len(it.CustomInformation) :
        it.CustomInformation[i].Key = dibsCustomInfoKey

\* getCustomDiBSData: the parsed data of the first DIBS-INFO entry, nil when
\* there is none, when its data is empty or when it does not parse
getCustomDiBSData(it) ==
    LET ci == it.CustomInformation
        data == IF HasDibsInfo(it)
                    THEN ci[CHOOSE i \in 1..Len(ci) :
                                /\ ci[i].Key = dibsCustomInfoKey
                                /\ \A j \in 1..(i - 1) :
                                        ci[j].Key # dibsCustomInfoKey].Data
                    ELSE EmptyData
    IN  IF data = EmptyData THEN NilData
        ELSE IF ~Unmarshal(data).ok THEN NilData
        ELSE [nil |-> FALSE, dd |-> Unmarshal(data).dd]

\* the test of setBarcodeInDiBS for "already in dibs"
AlreadyInDibsByHome(it) ==
    ~getCustomDiBSData(it).nil /\ it.HomeLocation = dibsLocationKey
AlreadyInDibs(it) ==
    ~getCustomDiBSData(it).nil /\ it.ItemType = dibsLocationKey

\* the test of setBarcodeNotInDiBS for "not in dibs; nothing to do"
NotInDibs(it) ==
    getCustomDiBSData(it).nil /\ it.ItemType # dibsLocationKey

\* the original values setBarcodeInDiBS saves
SavedDataHomeTwice(it) ==
    [HomeLocation |-> it.HomeLocation, ItemType |-> it.HomeLocation]
SavedData(it) ==
    [HomeLocation |-> it.HomeLocation, ItemType |-> it.ItemType]

\* the item setBarcodeInDiBS puts
InDibsItem(it) ==
    [HomeLocation |-> dibsLocationKey, ItemType |-> dibsLocationKey,
     CustomInformation |->
        Append(it.CustomInformation,
               [Key |-> dibsCustomInfoKey, Data |-> Marshal(SavedData(it))])]

RECURSIVE WithoutDibsInfo(_)
WithoutDibsInfo(ci) ==
    IF ci = <<>> THEN <<>>
    ELSE IF Head(ci).Key # dibsCustomInfoKey
        THEN <<Head(ci)>> \o WithoutDibsInfo(Tail(ci))
        ELSE WithoutDibsInfo(Tail(ci))

\* the item setBarcodeNotInDiBS puts
NoDibsItem(it) ==
    [HomeLocation |-> getCustomDiBSData(it).dd.HomeLocation,
     ItemType |-> getCustomDiBSData(it).dd.ItemType,
     CustomInformation |-> WithoutDibsInfo(it.CustomInformation)]

\* one request as the history keeps it
DibsDone(op, getOk, status, put, panicked, before, after) ==
    [op |-> op, getOk |-> getOk, status |-> status, put |-> put,
     panicked |-> panicked, before |-> before, after |-> after]

\* PUT /dibs/indibs/:barcode
setBarcodeInDiBS ==
    /\ Len(dibs.hist) < MaxOps
    /\ \E getOk \in BOOLEAN, putOk \in BOOLEAN :
        LET done(status, put, after) ==
                /\ item' = after
                /\ dibs' = [dibs EXCEPT !.hist =
                        Append(dibs.hist, DibsDone("indibs", getOk, status, put,
                                                   FALSE, item, after))]
        IN  IF ~getOk THEN putOk /\ done(500, FALSE, item)
            ELSE IF AlreadyInDibs(item) THEN putOk /\ done(200, FALSE, item)
            ELSE IF putOk THEN done(200, TRUE, InDibsItem(item))
            ELSE done(400, TRUE, item)
    /\ UNCHANGED notDibs

\* PUT /dibs/nodibs/:barcode
setBarcodeNotInDiBS ==
    /\ Len(dibs.hist) < MaxOps
    /\ \E getOk \in BOOLEAN, putOk \in BOOLEAN :
        LET done(status, put, panicked, after) ==
                /\ item' = after
                /\ dibs' = [dibs EXCEPT !.hist =
                        Append(dibs.hist, DibsDone("nodibs", getOk, status, put,
                                                   panicked, item, after))]
        IN  IF ~getOk THEN putOk /\ done(500, FALSE, FALSE, item)
            ELSE IF NotInDibs(item) THEN putOk /\ done(200, FALSE, FALSE, item)
            \* data.HomeLocation.Key with data == nil: the handler panics and
            \* gin's recovery answers 500
            ELSE IF getCustomDiBSData(item).nil
                THEN putOk /\ done(500, FALSE, TRUE, item)
            ELSE IF putOk THEN done(200, TRUE, FALSE, NoDibsItem(item))
            ELSE done(400, TRUE, FALSE, item)
    /\ UNCHANGED notDibs

InitDibs ==
    /\ rt = RetryIdle
    /\ posts = <<>>
    /\ upPrompts = PromptTypes
    /\ session = LoggedIn
    /\ IdleFill
    /\ item \in Items
    /\ dibs = DibsStart
    /\ IdleHold
    /\ IdleMw
    /\ IdlePlace
    /\ IdleOptions
    /\ IdleAvail
    /\ IdleTerm

NextDibs == setBarcodeInDiBS \/ setBarcodeNotInDiBS

SpecDibs == InitDibs /\ [][NextDibs]_vars

\* an indibs answered 200 directly followed by a nodibs answered 200
RoundTripAt(i) ==
    /\ i + 1 <= Len(dibs.hist)
    /\ dibs.hist[i].op = "indibs"
    /\ dibs.hist[i].status = 200
    /\ dibs.hist[i + 1].op = "nodibs"
    /\ dibs.hist[i + 1].status = 200

SameHomeAndType(a, b) ==
    a.HomeLocation = b.HomeLocation /\ a.ItemType = b.ItemType

\* C7 as stated: for any item X, indibs and then nodibs leave the home
\* location and the item type of X.
RoundTripAnyItem ==
    \A i \in 1..Len(dibs.hist) :
        RoundTripAt(i) =>
            SameHomeAndType(dibs.hist[i + 1].after, dibs.hist[i].before)

\* C7 amended: for any item X that carries no DIBS-INFO entry, indibs and
\* then nodibs, both answered 200, leave the home location and the item type
\* of X.
RoundTripFreshItem ==
    \A i \in 1..Len(dibs.hist) :
        (RoundTripAt(i) /\ ~HasDibsInfo(dibs.hist[i].before)) =>
            /\ SameHomeAndType(dibs.hist[i + 1].after, dibs.hist[i].before)
            /\ dibs.hist[i].put
            /\ dibs.hist[i + 1].put

\* a book from the stacks with an unrelated custom entry went in and out
RoundTripMade ==
    /\ Len(dibs.hist) = 2
    /\ RoundTripAt(1)
    /\ dibs.hist[1].before.HomeLocation = "STACKS"
    /\ dibs.hist[1].before.ItemType = "BOOK"
    /\ Len(dibs.hist[1].before.CustomInformation) = 1
    /\ ~HasDibsInfo(dibs.hist[1].before)
    /\ dibs.hist[1].after.ItemType = dibsLocationKey
    /\ item.HomeLocation = "STACKS"

\* the item bears the DIBS tag: home location and item type are both DIBS
BearsDibsTag(it) ==
    it.HomeLocation = dibsLocationKey /\ it.ItemType = dibsLocationKey

IsNoop(h) == h.status = 200 /\ ~h.put /\ h.after = h.before

\* C8 as stated: indibs is a no-op whenever the item bears the DIBS tag.
InDibsNoopWhenTagged ==
    \A i \in 1..Len(dibs.hist) :
        LET h == dibs.hist[i]
        IN  (h.op = "indibs" /\ h.getOk /\ BearsDibsTag(h.before)) => IsNoop(h)

\* C8 amended: indibs is a no-op whenever the item's type is DIBS and its
\* first DIBS-INFO entry holds a document that parses: 200, no PUT, the item
\* and its saved values as they were.
InDibsNoopWhenTaggedAndSaved ==
    \A i \in 1..Len(dibs.hist) :
        LET h == dibs.hist[i]
        IN  (/\ h.op = "indibs"
             /\ h.getOk
             /\ h.before.ItemType = dibsLocationKey
             /\ ~getCustomDiBSData(h.before).nil) => IsNoop(h)

\* indibs asked twice: the second request found the tag and the saved values
InDibsTwice ==
    /\ Len(dibs.hist) = 2
    /\ dibs.hist[1].op = "indibs" /\ dibs.hist[1].put /\ dibs.hist[1].status = 200
    /\ dibs.hist[2].op = "indibs" /\ dibs.hist[2].getOk
    /\ dibs.hist[2].before.HomeLocation = "DIBS"
    /\ dibs.hist[2].before.ItemType = "DIBS"
    /\ getCustomDiBSData(dibs.hist[2].before).dd
            = [HomeLocation |-> "STACKS", ItemType |-> "BOOK"]

\* C9: nodibs is a no-op whenever the item has no DIBS-INFO entry, whatever
\* its item type: 200 and no PUT.
NoDibsNoopWithoutInfo ==
    \A i \in 1..Len(dibs.hist) :
        LET h == dibs.hist[i]
        IN  (h.op = "nodibs" /\ h.getOk /\ ~HasDibsInfo(h.before)) =>
                (IsNoop(h) /\ ~h.panicked)

(***************************************************************************)
(* Hold cancel: src/unnamed/part_010, deleteHold.                          *)
(***************************************************************************)
MaxIdLen == 2       \* the longest user id

\* user ids are strings over a small alphabet with both cases of a letter
Alphabet == {"a", "A", "b"}

UserIDs == UNION { [1..n -> Alphabet] : n \in 0..MaxIdLen }

ToUpperChar(c) == CASE c = "a" -> "A" [] c = "b" -> "B" [] OTHER -> c

\* strings.ToUpper
ToUpper(str) == [i \in 1..Len(str) |-> ToUpperChar(str[i])]

HoldStatuses == {"PLACED", "BEING_HELD"}
RecallStatuses == {"STANDARD", "RUSH"}

\* the hold record the GET returns
Holds ==
    { [owner |-> o, status |-> st, recallStatus |-> r] :
        o \in UserIDs, st \in HoldStatuses, r \in RecallStatuses }

\* the owner test of deleteHold: true when the caller may go on
OwnerMatches(holdOwner, userID) == ToUpper(holdOwner) = ToUpper(userID)

\* the status test of deleteHold: true when the hold may be cancelled
CancellableEither(hold) ==
    hold.status = "PLACED" \/ hold.recallStatus # "RUSH"
Cancellable(hold) ==
    hold.status = "PLACED" /\ hold.recallStatus # "RUSH"

\* DELETE /requests/hold/:id, the whole handler: the claims, the GET of the
\* hold, the two tests, the upstream DELETE and the answer
deleteHold ==
    /\ dh.count = 0
    /\ \E claimsOk \in BOOLEAN :
        LET ended(userID, fetch, hold, issued, status) ==
                dh' = [count |-> dh.count + 1, claimsOk |-> claimsOk,
                       userID |-> userID, fetch |-> fetch, hold |-> hold,
                       deleteIssued |-> issued, status |-> status]
        IN  IF ~claimsOk THEN ended(<<>>, "", NoHold, FALSE, 401)
            ELSE \E userID \in UserIDs,
                    fetch \in {"ok", "404", "500", "unparsable"} :
                IF fetch # "ok"
                    THEN ended(userID, fetch, NoHold, FALSE,
                               IF fetch = "404" THEN 404 ELSE 500)
                ELSE \E hold \in Holds :
                    IF ~OwnerMatches(hold.owner, userID)
                        THEN ended(userID, fetch, hold, FALSE, 400)
                    ELSE IF Cancellable(hold) = FALSE
                        THEN ended(userID, fetch, hold, FALSE, 400)
                    ELSE \E del \in {"ok", "204", "500"} :
                        ended(userID, fetch, hold, TRUE,
                              IF del = "500" THEN 500 ELSE 200)
    /\ UNCHANGED notHold

InitHold ==
    /\ rt = RetryIdle
    /\ posts = <<>>
    /\ upPrompts = PromptTypes
    /\ session = LoggedIn
    /\ IdleFill
    /\ IdleDibs
    /\ IdleHold
    /\ IdleMw
    /\ IdlePlace
    /\ IdleOptions
    /\ IdleAvail
    /\ IdleTerm

NextHold == deleteHold

SpecHold == InitHold /\ [][NextHold]_vars

ToLowerChar(c) == CASE c = "A" -> "a" [] c = "B" -> "b" [] OTHER -> c

\* equality of two ids up to the case of their letters
EqualFold(x, y) ==
    /\ Len(x) = Len(y)
    /\ \A i \in 1..Len(x) : ToLowerChar(x[i]) = ToLowerChar(y[i])

\* C10: the upstream delete is issued, and success reported, only if the
\* caller's user id equals the hold's patron alternateID up to case and the
\* hold is PLACED with a recall status other than RUSH; otherwise no delete.
DeleteOnlyOwnPlacedHold ==
    /\ dh.deleteIssued =>
        /\ dh.claimsOk
        /\ dh.fetch = "ok"
        /\ EqualFold(dh.userID, dh.hold.owner)
        /\ dh.hold.status = "PLACED"
        /\ dh.hold.recallStatus # "RUSH"
    /\ dh.status = 200 => dh.deleteIssued

\* the owner cancelled a hold with the id typed in another case
OwnerCancelled ==
    /\ dh.deleteIssued
    /\ dh.status = 200
    /\ dh.userID = <<"a", "b">>
    /\ dh.hold.owner = <<"A", "b">>

(***************************************************************************)
(* Request middleware: the handler chain of a route, session-ensure        *)
(* (src/cmd/middleware.go, src/cmd/service.go) and the reference-data      *)
(* refresh (src/unnamed/part_004, src/cmd/libraries.go).  Nothing locks    *)
(* the session or the tables, so two requests interleave at every upstream *)
(* call and between a staleness test and the refresh it starts.  A table   *)
(* record is modelled by its key: its flags are functions of the key.      *)
(***************************************************************************)
MaxTicks == 1       \* how often one behaviour moves the clock on

SessionTTL == 1     \* time.Now().Add(1 * time.Hour)
PolicyTTL == 24     \* time.Now().Add(24 * time.Hour)

\* the handler chains of the routes that read the tables
Routes ==
    [checkouts |->
        <<"sirsiAuthMiddleware", "locationsMiddleware", "handler">>,
     availabilityList |->
        <<"sirsiAuthMiddleware", "refreshDataMiddleware", "handler">>,
     availability |->
        <<"refreshDataMiddleware", "sirsiAuthMiddleware", "handler">>]

\* the policy keys of the upstream, each of them once
LocationLists == { <<"STACKS">>, <<"STACKS", "RESERVE">> }
ReserveLists == { <<"RESERVE">> }
LibraryLists == { <<"ALDERMAN", "CLEMONS">> }

\* what a GET of a policy list comes back with: an error (transport, status
\* or parse), or one of the lists
Fetches(lists) ==
    {[ok |-> FALSE, recs |-> <<>>]} \cup {[ok |-> TRUE, recs |-> l] : l \in lists}

\* time.Time.After
After(t, u) == t > u

\* SirsiSession.isExpired answering at the instant RefreshAt already
isExpiredAtRefreshAt == clock.now >= session.RefreshAt

\* SirsiSession.isExpired
isExpired == After(clock.now, session.RefreshAt)


\* SirsiSession of a serviceContext just built
NoSession == [SessionToken |-> "", StaffKey |-> "", RefreshAt |-> ZeroTime]

Chain(req) == Routes[req.route]

\* the request is about to run the named element of its chain
At(req, name) == req.pc = "chain" /\ Chain(req)[req.idx] = name

Enter(req, name) == [req EXCEPT !.ran = Append(@, name)]

\* an element of the chain is over, by c.Next() or by a plain return: the
\* router runs the next one unless the request was aborted
Return(req) ==
    IF req.aborted \/ req.idx = Len(Chain(req))
        THEN [req EXCEPT !.pc = "done"]
        ELSE [req EXCEPT !.pc = "chain", !.idx = @ + 1]

AbortWithErrorKeepsGoing(req, code) == [req EXCEPT !.status = code]
AbortWithError(req, code) == [req EXCEPT !.status = code, !.aborted = TRUE]

SetReq(r, req) == reqs' = [reqs EXCEPT ![r] = req]

\* the request is being served
InFlight(req) == req.pc \notin {"new", "done"}

\* the router receives a request for one of the routes; the requests are
\* named in the order they arrive, and a request remembers whether another
\* one was being served at any time it was
Arrive(routes) ==
    \E r \in Requests, route \in routes :
        /\ reqs[r].pc = "new"
        /\ r = "r2" => reqs["r1"].pc # "new"
        /\ reqs' = [q \in Requests |->
                IF q = r
                    THEN [reqs[r] EXCEPT !.route = route, !.pc = "chain",
                            !.idx = 1,
                            !.overlapped = \E o \in Requests : InFlight(reqs[o])]
                ELSE IF InFlight(reqs[q])
                    THEN [reqs[q] EXCEPT !.overlapped = TRUE]
                ELSE reqs[q]]
        /\ UNCHANGED <<session, clock, locations, libraries>>
        /\ UNCHANGED notMw

\* the routes that install session-ensure first
EnsureFirstRoutes == {"checkouts", "availabilityList"}

\* a request for a route that installs session-ensure first
arrive == Arrive(EnsureFirstRoutes)

\* a request for any of the routes
arriveAny == Arrive(DOMAIN Routes)

NeedsLogin == session.SessionToken = "" \/ isExpired

\* session-ensure up to the POST of sirsiLogin, which first clears the token
sirsiAuthMiddleware ==
    \E r \in Requests :
        LET req == Enter(reqs[r], "sirsiAuthMiddleware") IN
        /\ At(reqs[r], "sirsiAuthMiddleware")
        /\ IF NeedsLogin
            THEN /\ session' = [session EXCEPT !.SessionToken = "",
                                               !.StaffKey = ""]
                 /\ SetReq(r, [req EXCEPT !.pc = "sirsiLogin"])
            ELSE /\ UNCHANGED session
                 /\ SetReq(r, Return([req EXCEPT
                        !.atRefreshAt = clock.now = session.RefreshAt]))
        /\ UNCHANGED <<clock, locations, libraries>>
        /\ UNCHANGED notMw

LoginOutcomes == {"ok", "error", "unparsable"}

NewSession(now) == [LoggedIn EXCEPT !.RefreshAt = now + SessionTTL]

\* the answer to the login POST, and the rest of sirsiAuthMiddleware
sirsiLogin ==
    \E r \in Requests, outcome \in LoginOutcomes :
        /\ reqs[r].pc = "sirsiLogin"
        /\ IF outcome = "ok"
            THEN /\ session' = NewSession(clock.now)
                 /\ SetReq(r, Return(reqs[r]))
            ELSE /\ UNCHANGED session
                 /\ SetReq(r, Return(AbortWithError(
                        [reqs[r] EXCEPT !.loginFailed = TRUE], 403)))
        /\ UNCHANGED <<clock, locations, libraries>>
        /\ UNCHANGED notMw

LocationsStale == After(clock.now, locations.RefreshAt)

\* the staleness test of the location table
LocationsCheck(req) ==
    IF LocationsStale THEN [req EXCEPT !.pc = "refreshLocations"]
                      ELSE Return(req)

locationsMiddleware ==
    \E r \in Requests :
        /\ At(reqs[r], "locationsMiddleware")
        /\ SetReq(r, LocationsCheck(Enter(reqs[r], "locationsMiddleware")))
        /\ UNCHANGED <<session, clock, locations, libraries>>
        /\ UNCHANGED notMw

\* refreshLocations up to the GET of getSirsiLocations: RefreshAt moves on
\* and the records are dropped before the list is asked for
refreshLocations ==
    \E r \in Requests :
        /\ reqs[r].pc = "refreshLocations"
        /\ locations' = [locations EXCEPT !.RefreshAt = clock.now + PolicyTTL,
                                          !.Records = <<>>]
        /\ SetReq(r, [reqs[r] EXCEPT !.pc = "getSirsiLocations",
                                     !.before.locs = locations.Records])
        /\ UNCHANGED <<session, clock, libraries>>
        /\ UNCHANGED notMw

\* the answer to the location GET, the append loop, and
\* getSirsiReserveLocations up to its GET
getSirsiLocations ==
    \E r \in Requests, resp \in Fetches(LocationLists) :
        LET fetched == IF resp.ok
                THEN [locations EXCEPT !.Records = @ \o resp.recs]
                ELSE [locations EXCEPT !.RefreshAt = clock.now]
        IN  /\ reqs[r].pc = "getSirsiLocations"
            /\ locations' = [fetched EXCEPT !.ReserveLocations = <<>>]
            /\ SetReq(r, [reqs[r] EXCEPT !.pc = "getSirsiReserveLocations",
                                         !.locFailed = ~resp.ok,
                                         !.got.locs = resp.recs,
                                         !.after.locs = fetched.Records])
            /\ UNCHANGED <<session, clock, libraries>>
            /\ UNCHANGED notMw

\* the answer to the reserve-location GET; the middleware then goes on
getSirsiReserveLocations ==
    \E r \in Requests, resp \in Fetches(ReserveLists) :
        /\ reqs[r].pc = "getSirsiReserveLocations"
        /\ locations' = IF resp.ok
            THEN [locations EXCEPT !.ReserveLocations = @ \o resp.recs]
            ELSE [locations EXCEPT !.RefreshAt = clock.now]
        /\ SetReq(r, Return(reqs[r]))
        /\ UNCHANGED <<session, clock, libraries>>
        /\ UNCHANGED notMw

LibrariesStale == After(clock.now, libraries.RefreshAt)

\* the refresh of both tables: the staleness test of the library table and
\* refreshLibraries up to its GET, the records dropped first
refreshDataMiddleware ==
    \E r \in Requests :
        LET req == Enter(reqs[r], "refreshDataMiddleware") IN
        /\ At(reqs[r], "refreshDataMiddleware")
        /\ IF LibrariesStale
            THEN /\ libraries' = [libraries EXCEPT !.Records = <<>>]
                 /\ SetReq(r, [req EXCEPT !.pc = "refreshLibraries",
                                          !.before.libs = libraries.Records])
            ELSE /\ UNCHANGED libraries
                 /\ SetReq(r, [req EXCEPT !.pc = "checkLocations"])
        /\ UNCHANGED <<session, clock, locations>>
        /\ UNCHANGED notMw

\* the answer to the library GET and the append loop
refreshLibraries ==
    \E r \in Requests, resp \in Fetches(LibraryLists) :
        /\ reqs[r].pc = "refreshLibraries"
        /\ libraries' = IF resp.ok
            THEN [libraries EXCEPT !.Records = @ \o resp.recs,
                                   !.RefreshAt = clock.now + PolicyTTL]
            ELSE [libraries EXCEPT !.RefreshAt = clock.now]
        /\ SetReq(r, [reqs[r] EXCEPT !.pc = "checkLocations",
                                     !.libFailed = ~resp.ok,
                                     !.got.libs = resp.recs,
                                     !.after.libs = libraries'.Records])
        /\ UNCHANGED <<session, clock, locations>>
        /\ UNCHANGED notMw

\* the location half of the refresh of both tables
refreshDataLocations ==
    \E r \in Requests :
        /\ reqs[r].pc = "checkLocations"
        /\ SetReq(r, LocationsCheck(reqs[r]))
        /\ UNCHANGED <<session, clock, locations, libraries>>
        /\ UNCHANGED notMw

\* the handler of the route reads the tables and answers
handler ==
    \E r \in Requests :
        LET req == Enter(reqs[r], "handler") IN
        /\ At(reqs[r], "handler")
        /\ SetReq(r, Return([req EXCEPT
                !.observed = [locs |-> locations.Records,
                              libs |-> libraries.Records],
                !.status = IF @ = 0 THEN 200 ELSE @]))
        /\ UNCHANGED <<session, clock, locations, libraries>>
        /\ UNCHANGED notMw

\* time passes: an hour, or more than the lifetime of a table
Tick ==
    \E d \in {1, PolicyTTL + 1} :
        /\ clock.ticks < MaxTicks
        /\ clock' = [now |-> clock.now + d, ticks |-> clock.ticks + 1]
        /\ UNCHANGED <<session, locations, libraries, reqs>>
        /\ UNCHANGED notMw

InitMw ==
    /\ rt = RetryIdle
    /\ posts = <<>>
    /\ upPrompts = PromptTypes
    /\ session = NoSession
    /\ IdleFill
    /\ IdleDibs
    /\ IdleHold
    /\ IdleMw
    /\ IdlePlace
    /\ IdleOptions
    /\ IdleAvail
    /\ IdleTerm

NextMw ==
    \/ arrive
    \/ sirsiAuthMiddleware
    \/ sirsiLogin
    \/ locationsMiddleware
    \/ refreshLocations
    \/ getSirsiLocations
    \/ getSirsiReserveLocations
    \/ refreshDataMiddleware
    \/ refreshLibraries
    \/ refreshDataLocations
    \/ handler
    \/ Tick

SpecMw == InitMw /\ [][NextMw]_vars

\* the same with the requests of every route
NextRouter ==
    \/ arriveAny
    \/ sirsiAuthMiddleware
    \/ sirsiLogin
    \/ locationsMiddleware
    \/ refreshLocations
    \/ getSirsiLocations
    \/ getSirsiReserveLocations
    \/ refreshDataMiddleware
    \/ refreshLibraries
    \/ refreshDataLocations
    \/ handler
    \/ Tick

SpecRouter == InitMw /\ [][NextRouter]_vars

Ran(req, name) == \E i \in 1..Len(req.ran) : req.ran[i] = name

\* C4: a request whose session-ensure had to log in and whose login failed
\* is over with status 403, and session-ensure is the last element of its
\* chain that was invoked.
LoginFailureForbidden ==
    \A r \in Requests :
        reqs[r].loginFailed =>
            /\ reqs[r].pc = "done"
            /\ reqs[r].status = 403
            /\ reqs[r].ran[Len(reqs[r].ran)] = "sirsiAuthMiddleware"
            /\ ~Ran(reqs[r], "handler")

\* a login failed for one request while another request was served
LoginRefused ==
    \E r, q \in Requests :
        /\ reqs[r].loginFailed /\ reqs[r].status = 403
        /\ reqs[q].pc = "done" /\ reqs[q].status = 200

\* C5: a request of the checkouts route that was served with no other
\* request in the router, and whose handler ran behind a failed fetch of
\* the locations, read the location records held before the refresh.
FailedRefreshKeepsData ==
    \A r \in Requests :
        (/\ reqs[r].pc = "done"
         /\ reqs[r].route = "checkouts"
         /\ Ran(reqs[r], "handler")
         /\ ~reqs[r].overlapped
         /\ reqs[r].locFailed) =>
            reqs[r].observed.locs = reqs[r].before.locs

\* each key of the list is the key of exactly one record of the table
ExactlyOnce(keys, table) ==
    \A i \in 1..Len(keys) :
        Cardinality({j \in 1..Len(table) : table[j] = keys[i]}) = 1

\* C6: when a request's fetch of the locations has succeeded and its
\* records are appended, the location table holds exactly one record for
\* each key the upstream returned, whatever other requests are doing.
RefreshedExactlyOnce ==
    \A r \in Requests :
        reqs[r].got.locs # <<>> =>
            ExactlyOnce(reqs[r].got.locs, reqs[r].after.locs)

\* the requests inside sirsiLogin, between its clearing of the token and
\* the answer to its POST
LoggingIn == {r \in Requests : reqs[r].pc = "sirsiLogin"}

\* C17: when several requests find the session token missing or expired,
\* the executions of sirsiLogin exclude each other and one login is made:
\* no request is inside sirsiLogin while another one is, or after another
\* one has stored a fresh token.
LoginSerialized ==
    /\ Cardinality(LoggingIn) <= 1
    /\ \A r \in LoggingIn : session.SessionToken = ""

\* a step in which the GET of the locations, sent with the session token,
\* is answered with the list
UsesToken ==
    \E r \in Requests :
        /\ reqs[r].pc = "getSirsiLocations"
        /\ reqs'[r].pc = "getSirsiReserveLocations"
        /\ ~reqs'[r].locFailed

\* C18: while a session token is held, RefreshAt was in the future at the
\* instant the token was last used with success: every upstream call that
\* succeeds with the token is made before RefreshAt.
TokenUsedBeforeRefreshAt ==
    [][(UsesToken /\ session.SessionToken # "") =>
            session.RefreshAt > clock.now]_vars

\* the step is the session-ensure of the request
EnsureStep(r) ==
    At(reqs[r], "sirsiAuthMiddleware") /\ reqs'[r].ran # reqs[r].ran

\* session-ensure has called sirsiLogin, before the handler ran
CallsLogin(r) == reqs'[r].pc = "sirsiLogin" /\ ~Ran(reqs'[r], "handler")

Alone(r) == \A q \in Requests \ {r} : reqs[q].pc = "new"

\* C20: RefreshAt of the location table is 24h ahead only through a
\* refresh whose fetches all succeeded, and after a refresh with a failed
\* fetch it is left at the time of the failure: with one request received,
\* RefreshAt is not in the future while a fetch of its refresh is still
\* outstanding, nor after its fetch of the locations has failed.
RefreshAtAheadOnlyOnSuccess ==
    \A r \in Requests :
        Alone(r) =>
            /\ reqs[r].pc \in {"getSirsiLocations",
                               "getSirsiReserveLocations"} =>
                    ~After(locations.RefreshAt, clock.now)
            /\ reqs[r].locFailed => ~After(locations.RefreshAt, clock.now)

\* the request is inside a refresh of the location table: the records
\* were dropped and the lists are not both back
Refreshing(req) ==
    req.pc \in {"getSirsiLocations", "getSirsiReserveLocations"}

\* the step is the handler of the request reading the tables
HandlerStep(r) == At(reqs[r], "handler") /\ Ran(reqs'[r], "handler")

\* the complete location tables: a list of the upstream, or the records
\* held when the refresh began, if any were
CompleteTables(before) == LocationLists \cup ({before} \ {<<>>})

\* C21: a request that reads the location table while the refresh of
\* another request is in progress reads the complete table from before the
\* refresh or a complete table from after it, never an empty or partly
\* filled one.
ReadsCompleteTable ==
    [][\A r, q \in Requests :
        (HandlerStep(r) /\ q # r /\ Refreshing(reqs[q])) =>
            reqs'[r].observed.locs \in CompleteTables(reqs[q].before.locs)]_vars

\* the elements of the chains that refresh the reference data
RefreshElements == {"locationsMiddleware", "refreshDataMiddleware"}

\* a GET of a policy list is outstanding for the request
Fetching(req) ==
    req.pc \in {"getSirsiLocations", "getSirsiReserveLocations",
                "refreshLibraries"}

\* C26: on every route with both preconditions session-ensure runs before
\* the reference-data refresh, and a fetch of a refresh is made only after
\* session-ensure is over for the request.
EnsureBeforeRefresh ==
    \A r \in Requests :
        /\ \A i \in 1..Len(reqs[r].ran) :
            reqs[r].ran[i] \in RefreshElements =>
                \E j \in 1..(i - 1) : reqs[r].ran[j] = "sirsiAuthMiddleware"
        /\ Fetching(reqs[r]) => Ran(reqs[r], "sirsiAuthMiddleware")

\* the step sends a GET of the location refresh for the request
SendsFetch(r) == Refreshing(reqs'[r]) /\ reqs'[r].pc # reqs[r].pc

\* C28: a call made with the connector's session for a request that has
\* passed session-ensure is never sent with an empty token, also while
\* another request is inside sirsiLogin.
TokenOnEveryFetch ==
    [][\A r \in Requests :
        (SendsFetch(r) /\ Ran(reqs[r], "sirsiAuthMiddleware")) =>
            session.SessionToken # ""]_vars

(***************************************************************************)
(* Shutdown: the goroutine started by main waits for SIGTERM or SIGINT,    *)
(* calls terminateSession and exits the process.  The requests in flight   *)
(* keep running on their goroutines until the exit.                        *)
(***************************************************************************)

\* the answers of POST /user/staff/logout
LogoutOutcomes == {"ok", "failed"}

\* the process has not exited: the request goroutines still run
serve == term.pc # "exited" /\ NextMw

\* the signal arrives: terminateSession tests the session; with a token
\* held and not expired it posts the logout, otherwise it only logs and
\* returns, and the goroutine exits the process
terminateSession ==
    /\ term.pc = "running"
    /\ IF session.SessionToken # "" /\ ~isExpired
        THEN term' = [term EXCEPT !.pc = "logout", !.valid = TRUE]
        ELSE term' = [term EXCEPT !.pc = "exited"]
    /\ session' = session
    /\ UNCHANGED notTerm

\* the logout is answered: both fields are cleared whatever the answer,
\* terminateSession returns and the goroutine exits the process
logoutAnswered ==
    \E outcome \in LogoutOutcomes :
        /\ term.pc = "logout"
        /\ session' = [session EXCEPT !.SessionToken = "", !.StaffKey = ""]
        /\ term' = [term EXCEPT !.pc = "exited", !.logout = outcome]
        /\ UNCHANGED notTerm

NextTerm ==
    \/ serve
    \/ terminateSession
    \/ logoutAnswered

SpecTerm == InitMw /\ [][NextTerm]_vars

\* C25: terminateSession posts a logout only if a token is held and not
\* expired, and once it has returned (the process then exits) the local
\* session token and staff key are both empty, whether the token was valid,
\* expired or absent and whether the logout succeeded or failed.
TerminateLeavesNoSession ==
    /\ term.logout # "none" => term.valid
    /\ term.pc = "exited" =>
        session.SessionToken = "" /\ session.StaffKey = ""

(***************************************************************************)
(* Hold placement: src/unnamed/part_010, createHold and placeHold, with    *)
(* sendRequest and handleSirsiErrorResponse of src/cmd/service.go.         *)
(***************************************************************************)
MaxMsgs == 2        \* the longest messageList of an upstream rejection

MessageCodes == {"keyParseError", "holdBlocked"}

MessageLists == UNION { [1..n -> MessageCodes] : n \in 0..MaxMsgs }

\* the bodies the upstream sends with an error status: free text, a JSON
\* document with a messageList, or text that names messageList and is not
\* a JSON document
BrokenBody == [mentionsMessageList |-> TRUE, parses |-> FALSE,
               messageList |-> <<>>]
StructuredBodies ==
    {[mentionsMessageList |-> TRUE, parses |-> TRUE, messageList |-> l] :
        l \in MessageLists}
HoldErrorBodies == {PlainBody, BrokenBody} \cup StructuredBodies

\* what httpClient.Do comes back with: an error of the transport, or a
\* status with a body
RawErrors == {"Timeout", "connection refused", "other"}
ErrorStatuses == {400, 404, 500}
RawResponses ==
    {[rawErr |-> e, StatusCode |-> 0, body |-> PlainBody] : e \in RawErrors}
    \cup {[rawErr |-> "", StatusCode |-> st, body |-> PlainBody] :
            st \in {200, 201}}
    \cup {[rawErr |-> "", StatusCode |-> st, body |-> b] :
            st \in ErrorStatuses, b \in HoldErrorBodies}

NoRequestError == [isErr |-> FALSE, StatusCode |-> 0, Message |-> PlainBody]

\* sendRequest: the requestError it returns
sendRequest(raw) ==
    IF raw.rawErr # ""
        THEN [isErr |-> TRUE,
              StatusCode |-> CASE raw.rawErr = "Timeout" -> 408
                               [] raw.rawErr = "connection refused" -> 503
                               [] OTHER -> 400,
              Message |-> PlainBody]
    ELSE IF raw.StatusCode # 200 /\ raw.StatusCode # 201
        THEN [isErr |-> TRUE, StatusCode |-> raw.StatusCode,
              Message |-> raw.body]
    ELSE NoRequestError

\* handleSirsiErrorResponse: the parsed messageList, or the error to report
handleSirsiErrorResponse(errResp) ==
    IF errResp.Message.mentionsMessageList
        THEN IF ~errResp.Message.parses
                THEN [isErr |-> TRUE, StatusCode |-> 500,
                      MessageList |-> <<>>]
                ELSE [isErr |-> FALSE, StatusCode |-> 0,
                      MessageList |-> errResp.Message.messageList]
        ELSE [isErr |-> TRUE, StatusCode |-> errResp.StatusCode,
              MessageList |-> <<>>]

\* getHoldErrorMessages: keyParseError goes to the item barcode errors, any
\* other message to the sirsi errors
getHoldErrorMessages(messageList) ==
    [present |-> TRUE,
     Sirsi |-> SelectSeq(messageList, LAMBDA m : m # "keyParseError"),
     ItemBarcode |->
        [i \in 1..Len(SelectSeq(messageList,
                                LAMBDA m : m = "keyParseError")) |->
            "Invalid title key"]]

PickupLibraries == {"ALDERMAN", "CLEMONS"}
ItemBarcodes == {"X001", "X002"}

\* one place-hold request, from its body to the response written
createHold ==
    /\ ch.count = 0
    /\ \E bound \in BOOLEAN, claimsOk \in BOOLEAN :
        LET ended(raw, outcome, status, kind, out) ==
                ch' = [count |-> 1, bound |-> bound, claimsOk |-> claimsOk,
                       posted |-> raw # NoRaw, upstream |-> raw,
                       outcome |-> outcome,
                       status |-> status, kind |-> kind, out |-> out]
        IN  IF ~bound THEN ended(NoRaw, "", 400, "text", NoHoldResponse)
            ELSE IF ~claimsOk
                THEN ended(NoRaw, "", 401, "text", NoHoldResponse)
            ELSE \E lib \in PickupLibraries, bc \in ItemBarcodes,
                    raw \in RawResponses :
                LET out == [ItemBarcode |-> bc, PickupLibrary |-> lib,
                            UserID |-> "mst3k", Errors |-> NoHoldErrors]
                    holdErr == sendRequest(raw)
                    sirsiErr == handleSirsiErrorResponse(holdErr)
                    outcome ==
                        IF raw.rawErr # "" THEN "transport"
                        ELSE IF ~holdErr.isErr THEN "accepted"
                        ELSE IF raw.body.mentionsMessageList /\ raw.body.parses
                            THEN "structured"
                        ELSE "unstructured"
                IN  IF ~holdErr.isErr
                        THEN ended(raw, outcome, 200, "json", out)
                    ELSE IF sirsiErr.isErr
                        THEN ended(raw, outcome, sirsiErr.StatusCode, "text",
                                   NoHoldResponse)
                    ELSE ended(raw, outcome, 200, "json",
                               [out EXCEPT !.Errors =
                                   getHoldErrorMessages(sirsiErr.MessageList)])
    /\ UNCHANGED session
    /\ UNCHANGED notPlace

InitPlace ==
    /\ rt = RetryIdle
    /\ posts = <<>>
    /\ upPrompts = PromptTypes
    /\ session = LoggedIn
    /\ IdleFill
    /\ IdleDibs
    /\ IdleHold
    /\ IdleMw
    /\ IdlePlace
    /\ IdleOptions
    /\ IdleAvail
    /\ IdleTerm

NextPlace == createHold

SpecPlace == InitPlace /\ [][NextPlace]_vars

\* C11: a place-hold request with a parsable body and valid claims is
\* answered 200 with the JSON envelope, whatever the upstream did.
PlaceHoldAlways200 ==
    (ch.count = 1 /\ ch.bound /\ ch.claimsOk) =>
        ch.status = 200 /\ ch.kind = "json"

(***************************************************************************)
(* Request-options derivation: src/cmd/options.go, createRequestOptions,   *)
(* addSirsiRequestOptions and addAeonRequestOptions, with holdableExists   *)
(* and isNonCirculating of src/cmd/availability.go.  The items of a        *)
(* response have distinct barcodes: item n has barcode n.                  *)
(***************************************************************************)
MaxItems == 2       \* the items of one availability response

Profiles == {"UNDERGRAD", "VABORROWER", "FACULTY"}
HomeLibraries == {"HEALTHSCI", "ALDERMAN"}
noScanProfiles == {"VABORROWER", "OTHERVAFAC", "ALUMNI", "RESEARCHER"}
NoScanHomeLocations == {"HISTCOL", "RARESHL", "RAREOVS", "RAREVLT"}

OptionLibraries == {"ALDERMAN", "SPEC-COLL"}
OptionHomeLocations == {"STACKS", "RAREVLT", "BY-REQUEST", "LOCKEDSTKS"}
CallNumbers == {"PS1", "ps1", "QA2"}
Volumes == {"", "v.1"}

\* what find returns for the item's library and for its current location:
\* nil, or the record with its Circulating flag
Lookups == {"nil", "circulating", "nonCirculating"}

\* the availItem fields the derivation reads
AvailItems(barcode) ==
    [Barcode : {barcode}, CallNumber : CallNumbers, Volume : Volumes,
     LibraryID : OptionLibraries, HomeLocationID : OptionHomeLocations,
     IsVideo : BOOLEAN, Unavailable : BOOLEAN, AvailableToOrder : BOOLEAN,
     SCLocation : {"", "SC-STACKS"}]

\* strings.EqualFold on the call numbers
FoldCall(cn) == IF cn = "ps1" THEN "PS1" ELSE cn

isMediumRare(key) == key = "LOCKEDSTKS"

\* toHoldableItem, and the label of a medium-rare item
toHoldableItem(it, notes) ==
    [Barcode |-> it.Barcode, CallNumber |-> it.CallNumber,
     IvyLimited |-> isMediumRare(it.HomeLocationID),
     Library |-> it.LibraryID, SCNotes |-> notes]

SameCallNumber(hi, tgt) ==
    FoldCall(hi.CallNumber) = FoldCall(tgt.CallNumber)
        /\ hi.IvyLimited = tgt.IvyLimited

holdableExists(tgtItem, volume, holdableItems) ==
    LET exist == \E i \in 1..Len(holdableItems) :
                    SameCallNumber(holdableItems[i], tgtItem)
    IN  IF ~exist THEN volume = "" /\ Len(holdableItems) > 0 ELSE exist

\* isNonCirculating of the service: "panic" when it reads loc.Circulating
\* through a nil location
isNonCirculating(lib, loc) ==
    IF lib # "nil" /\ loc # "nil" /\ lib = "nonCirculating" THEN "true"
    ELSE IF loc = "nil" THEN "panic"
    ELSE IF loc = "nonCirculating" THEN "true"
    ELSE "false"

AllOptions == {"hold", "videoReserve", "scan", "aeon"}

\* createRequestOptions and the head of addSirsiRequestOptions, for the
\* items of a response (given) or for any items (free)
OptionsEntry(profile, home, given, free) ==
    [OptionsStart EXCEPT
        !.pc = "sirsi", !.profile = profile, !.homeLibrary = home,
        !.given = given, !.free = free,
        !.noScans = (profile \in noScanProfiles \/ home = "HEALTHSCI"),
        !.Options = [o \in AllOptions |-> <<>>]]

createRequestOptions ==
    /\ ro.pc = "idle"
    /\ \E profile \in Profiles, home \in HomeLibraries :
        ro' = OptionsEntry(profile, home, <<>>, TRUE)
    /\ UNCHANGED session
    /\ UNCHANGED notOptions

\* the items the loop of addSirsiRequestOptions may meet next
NextItems ==
    IF ro.free
        THEN IF Len(ro.seen) < MaxItems THEN AvailItems(Len(ro.seen) + 1)
             ELSE {}
    ELSE IF Len(ro.seen) < Len(ro.given) THEN {ro.given[Len(ro.seen) + 1]}
    ELSE {}

AddBarcode(options, name, barcode) ==
    [options EXCEPT ![name] = Append(@, barcode)]

Without(options, name) ==
    [o \in (DOMAIN options) \ {name} |-> options[o]]

\* the scan part of one iteration: the request options after it, and
\* whether the item was just added
ScanStep(r, it, holdable) ==
    IF it.IsVideo \/ r.noScans \/ it.LibraryID = "SPEC-COLL"
        THEN [r |-> r, itemJustAdded |-> FALSE]
    ELSE IF it.HomeLocationID \in NoScanHomeLocations
        THEN [r |-> [r EXCEPT !.noScans = TRUE,
                              !.Options = Without(@, "scan")],
              itemJustAdded |-> FALSE]
    ELSE IF r.profile = "UNDERGRAD" /\ it.HomeLocationID # "BY-REQUEST"
        THEN [r |-> r, itemJustAdded |-> FALSE]
    ELSE IF ~holdableExists(holdable, it.Volume, r.Items)
        THEN [r |-> [r EXCEPT !.Items = Append(@, holdable),
                        !.Options = AddBarcode(@, "scan", holdable.Barcode)],
              itemJustAdded |-> TRUE]
    ELSE [r |-> r, itemJustAdded |-> FALSE]

\* the hold part of one iteration
HoldStep(r, it, holdable, itemJustAdded) ==
    IF ~holdableExists(holdable, it.Volume, r.Items) \/ itemJustAdded
        THEN LET r1 == IF itemJustAdded THEN r
                       ELSE [r EXCEPT !.Items = Append(@, holdable)]
                 r2 == [r1 EXCEPT
                    !.Options = AddBarcode(@, "hold", holdable.Barcode)]
             IN  IF it.IsVideo
                    THEN [r2 EXCEPT !.Options =
                            AddBarcode(@, "videoReserve", holdable.Barcode)]
                    ELSE r2
        ELSE r

\* one iteration of the loop of addSirsiRequestOptions over the items
addSirsiRequestOptions ==
    /\ ro.pc = "sirsi"
    /\ \E it \in NextItems, lib \in Lookups, loc \in Lookups :
        LET r0 == [ro EXCEPT
                    !.seen = Append(@, [LibraryID |-> it.LibraryID,
                                        Barcode |-> it.Barcode,
                                        SCLocation |-> it.SCLocation]),
                    !.atoItem = IF it.AvailableToOrder /\ @ = 0
                                    THEN it.Barcode ELSE @]
            holdable == toHoldableItem(it, "")
            scan == ScanStep(r0, it, holdable)
            nonCirc == isNonCirculating(lib, loc)
        IN  ro' = IF it.Unavailable THEN r0
                  ELSE IF nonCirc = "panic"
                    THEN [scan.r EXCEPT !.pc = "panicked"]
                  ELSE IF nonCirc = "true" THEN scan.r
                  ELSE HoldStep(scan.r, it, holdable, scan.itemJustAdded)
    /\ UNCHANGED session
    /\ UNCHANGED notOptions

\* the end of addSirsiRequestOptions: the available-to-order check
addPDAOption ==
    /\ ro.pc = "sirsi"
    /\ ro.free \/ Len(ro.seen) = Len(ro.given)
    /\ \E check \in {"ordered", "404", "error"} :
        ro' = [ro EXCEPT
                !.pc = "aeon",
                !.pda = IF ro.atoItem = 0 THEN ""
                        ELSE check,
                !.Options = IF ro.atoItem # 0 /\ check # "error"
                                THEN [o \in (DOMAIN @) \cup {"pda"} |->
                                        IF o = "pda" THEN <<>> ELSE @[o]]
                                ELSE @]
    /\ UNCHANGED session
    /\ UNCHANGED notOptions

\* the notes of a special-collections item
AeonNotes(it, hasLocalNotes) ==
    IF it.SCLocation # "" THEN it.SCLocation
    ELSE IF hasLocalNotes THEN "local notes"
    ELSE "(no location notes)"

AeonHoldable(it, hasLocalNotes) ==
    [Barcode |-> it.Barcode, CallNumber |-> "", IvyLimited |-> FALSE,
     Library |-> it.LibraryID, SCNotes |-> AeonNotes(it, hasLocalNotes)]

\* addAeonRequestOptions over the same items
addAeonRequestOptions ==
    /\ ro.pc = "aeon"
    /\ \E specialCollections \in BOOLEAN, hasLocalNotes \in BOOLEAN :
        LET sc == SelectSeq(ro.seen, LAMBDA it : it.LibraryID = "SPEC-COLL")
        IN  ro' = IF ~specialCollections THEN [ro EXCEPT !.pc = "done"]
                  ELSE [ro EXCEPT
                    !.pc = "done",
                    !.Items = @ \o [i \in 1..Len(sc) |->
                                        AeonHoldable(sc[i], hasLocalNotes)],
                    !.Options = [@ EXCEPT !["aeon"] =
                                    [i \in 1..Len(sc) |-> sc[i].Barcode]]]
    /\ UNCHANGED session
    /\ UNCHANGED notOptions

InitOptions ==
    /\ rt = RetryIdle
    /\ posts = <<>>
    /\ upPrompts = PromptTypes
    /\ session = LoggedIn
    /\ IdleFill
    /\ IdleDibs
    /\ IdleHold
    /\ IdleMw
    /\ IdlePlace
    /\ IdleOptions
    /\ IdleAvail
    /\ IdleTerm

NextOptions ==
    \/ createRequestOptions
    \/ addSirsiRequestOptions
    \/ addPDAOption
    \/ addAeonRequestOptions

SpecOptions == InitOptions /\ [][NextOptions]_vars

\* the entries of the items list with the barcode
EntriesOf(barcode) == {i \in 1..Len(ro.Items) : ro.Items[i].Barcode = barcode}

\* C13: in a finished request-options result, every barcode listed by an
\* option is the barcode of exactly one entry of items.
BarcodeListedOnce ==
    ro.pc = "done" =>
        \A o \in DOMAIN ro.Options :
            \A k \in 1..Len(ro.Options[o]) :
                Cardinality(EntriesOf(ro.Options[o][k])) = 1

\* ---------------------------------------------------------------------
\* Availability: getAvailability fetches the bib, processAvailabilityItems
\* turns its call records into items, the request options are derived from
\* the items and the response is sent.

\* call records of a bib
MaxCallRecs == 1

isOnline(key) == key \in {"INTERNET", "NOTOREPDA"}

isUnavailable(key) ==
    key \in {"LOST", "UNKNOWN", "MISSING", "DISCARD", "WITHDRAWN", "BARRED",
             "BURSARED", "ORD-CANCLD", "HEREDOC"}

\* a record of the locations table, as getSirsiLocations builds it
locationRec(key, shadowed) ==
    [Key |-> key, Online |-> isOnline(key), Shadowed |-> shadowed]

\* the current locations of the items of a bib
ItemLocationKeys == {"STACKS", "INTERNET", "CATALOGING", "WITHDRAWN"}

\* the table after a refresh that worked: the ILS shadows CATALOGING
LoadedLocations ==
    {locationRec(key, key = "CATALOGING") : key \in ItemLocationKeys}

\* the table a request may find: loaded, loaded from a list without the
\* INTERNET location, or emptied by a refresh that failed
PolicyTables ==
    {LoadedLocations, {r \in LoadedLocations : r.Key # "INTERNET"}, {}}

\* locationContext.find: the records with the key, none for nil
find(records, key) == {r \in records : r.Key = key}

ItemRecs ==
    [Shadowed : BOOLEAN, CurrentLocation : ItemLocationKeys,
     CopyNumber : {1, 2}]

ItemLists == {<<i>> : i \in ItemRecs} \cup {<<i, j>> : i, j \in ItemRecs}

CallRecs == [Shadowed : BOOLEAN, ItemList : ItemLists]

\* the bib fetch: a bib, or the error of sirsiGet or of the parse
BibOutcomes == {"ok", "404", "500", "unparsable"}

BibErrorStatus(outcome) == IF outcome = "404" THEN 404 ELSE 500

\* the copy number shown after the call number, 0 for none
CopySuffix(callRec, itemRec) ==
    IF \E t \in 1..Len(callRec.ItemList) : callRec.ItemList[t].CopyNumber > 1
        THEN itemRec.CopyNumber
    ELSE 0

\* the availItem of an item record; origin keeps the records it came from
availItem(callRec, itemRec, barcode, currLoc) ==
    [Barcode |-> barcode, CallNumber |-> "PS1",
     Copy |-> CopySuffix(callRec, itemRec), Volume |-> "",
     LibraryID |-> "ALDERMAN", HomeLocationID |-> "STACKS",
     CurrentLocationID |-> itemRec.CurrentLocation, IsVideo |-> FALSE,
     Unavailable |-> isUnavailable(itemRec.CurrentLocation),
     AvailableToOrder |-> FALSE, SCLocation |-> "",
     origin |-> [callShadowed |-> callRec.Shadowed,
                 itemShadowed |-> itemRec.Shadowed, location |-> currLoc]]

\* the location test of processAvailabilityItems, with the shadowed flag only
skipLocationShadowedOnly(currLoc) == currLoc.Shadowed

\* the location test of processAvailabilityItems
skipLocation(currLoc) == currLoc.Shadowed \/ currLoc.Online

\* the inner loop of processAvailabilityItems from item i of the call
\* record; the item's barcode is its place in the bib
RECURSIVE processItemList(_, _, _, _, _)
processItemList(callRec, records, i, before, out) ==
    IF i > Len(callRec.ItemList) THEN [out |-> out, panicked |-> FALSE]
    ELSE LET itemRec == callRec.ItemList[i]
             found == find(records, itemRec.CurrentLocation)
             currLoc == CHOOSE r \in found : TRUE
         IN  IF itemRec.Shadowed
                THEN processItemList(callRec, records, i + 1, before, out)
             ELSE IF found = {} THEN [out |-> out, panicked |-> TRUE]
             ELSE IF skipLocation(currLoc)
                THEN processItemList(callRec, records, i + 1, before, out)
             ELSE processItemList(callRec, records, i + 1, before,
                    Append(out, availItem(callRec, itemRec, before + i,
                                          currLoc)))

\* the current locations of the items of a call record
LocationsOf(callRec) ==
    [i \in 1..Len(callRec.ItemList) |-> callRec.ItemList[i].CurrentLocation]

\* getAvailability up to the bib fetch
getAvailability ==
    /\ av.pc = "idle"
    /\ \E matched \in BOOLEAN, outcome \in BibOutcomes,
            table \in PolicyTables :
        av' = IF ~matched
                THEN [av EXCEPT !.pc = "unmatched", !.table = table]
              ELSE IF outcome # "ok"
                THEN [av EXCEPT !.pc = "done", !.matched = TRUE,
                        !.fetch = outcome, !.table = table,
                        !.status = BibErrorStatus(outcome), !.kind = "text"]
              ELSE [av EXCEPT !.pc = "items", !.matched = TRUE,
                        !.fetch = outcome, !.table = table]
    /\ UNCHANGED <<session, ro>>
    /\ UNCHANGED notAvail

\* processAvailabilityItems: one call record of the bib
processAvailabilityItems ==
    /\ av.pc = "items"
    /\ av.calls < MaxCallRecs
    /\ \E callRec \in CallRecs :
        LET res == IF callRec.Shadowed
                        THEN [out |-> av.out, panicked |-> FALSE]
                   ELSE processItemList(callRec, av.table, 1, Len(av.seen),
                                        av.out)
        IN  av' = IF res.panicked
                    THEN [av EXCEPT !.pc = "done", !.calls = @ + 1,
                            !.seen = @ \o LocationsOf(callRec),
                            !.status = 500, !.kind = "recovered"]
                  ELSE [av EXCEPT !.calls = @ + 1,
                            !.seen = @ \o LocationsOf(callRec),
                            !.out = res.out]
    /\ UNCHANGED <<session, ro>>
    /\ UNCHANGED notAvail

\* the options are derived from the items of the response
generateRequestOptions ==
    /\ av.pc \in {"items", "unmatched"}
    /\ ro.pc = "idle"
    /\ \E profile \in Profiles, home \in HomeLibraries :
        ro' = OptionsEntry(profile, home, av.out, FALSE)
    /\ av' = [av EXCEPT !.pc = "options"]
    /\ UNCHANGED session
    /\ UNCHANGED notAvail

\* the end of getAvailability: the response is sent
sendAvailability ==
    /\ av.pc = "options"
    /\ ro.pc \in {"done", "panicked"}
    /\ av' = IF ro.pc = "done"
                THEN [av EXCEPT !.pc = "done", !.status = 200,
                                !.kind = "json"]
             ELSE [av EXCEPT !.pc = "done", !.status = 500,
                             !.kind = "recovered"]
    /\ UNCHANGED <<session, ro>>
    /\ UNCHANGED notAvail

InitAvail ==
    /\ rt = RetryIdle
    /\ posts = <<>>
    /\ upPrompts = PromptTypes
    /\ session = LoggedIn
    /\ IdleFill
    /\ IdleDibs
    /\ IdleHold
    /\ IdleMw
    /\ IdlePlace
    /\ IdleOptions
    /\ IdleAvail
    /\ IdleTerm

NextAvail ==
    \/ getAvailability
    \/ processAvailabilityItems
    \/ generateRequestOptions
    \/ addSirsiRequestOptions
    \/ addPDAOption
    \/ addAeonRequestOptions
    \/ sendAvailability

SpecAvail == InitAvail /\ [][NextAvail]_vars

\* the bib fetch and the item processing alone
NextProcess ==
    \/ getAvailability
    \/ processAvailabilityItems

SpecItems == InitAvail /\ [][NextProcess]_vars

\* the items of the availability response
Emitted == IF av.pc = "idle" THEN <<>> ELSE av.out

BibNotFoundNotFatal ==
    (av.pc = "done" /\ av.matched /\ av.fetch = "404") =>
        /\ av.status = 200
        /\ av.kind = "json"
        /\ av.calls = 0
        /\ ro.pc = "done"

\* C16: the availability response for a bib whose only item is at INTERNET
\* has no items, no holdable items and no hold, scan or videoReserve
\* option.
OnlineOnlyBibOffersNothing ==
    (av.pc = "done" /\ av.status = 200 /\ av.fetch = "ok"
        /\ av.seen = <<"INTERNET">>) =>
        /\ av.out = <<>>
        /\ ro.Items = <<>>
        /\ (DOMAIN ro.Options) \cap {"hold", "scan", "videoReserve"} = {}

\* C30: availability processing reads no field of a location lookup that
\* found nothing: a bib with an item whose current location has no record
\* in the table, the key unknown or the table empty, is processed without
\* a fault.
UnknownLocationHandled ==
    (av.matched /\ av.fetch = "ok"
        /\ \E i \in 1..Len(av.seen) : find(av.table, av.seen[i]) = {}) =>
        av.kind # "recovered"

====
